---- MODULE Spec2Model ----
(***************************************************************************)
(* A model of src/lib/useWatermark.ts: the React hook useWatermark, the    *)
(* tile synthesis createWatermarkImage and the colour helper hexToRgba.    *)
(*                                                                         *)
(* Conventions.  A JavaScript string that the code slices (a colour, a     *)
(* text) is a sequence of one-character strings.  A JavaScript value whose *)
(* type can vary (number, NaN, undefined, string) is a tagged record, see  *)
(* Num, Str, NaN and Undefined.  An opacity is counted in hundredths, so   *)
(* 5 stands for 0.05 and 100 for 1.                                        *)
(***************************************************************************)
EXTENDS Integers, Sequences, FiniteSets

VARIABLES
    \* ---- the hook instance (useWatermark) ----
    text,            \* the text argument of the latest render
    option,          \* the option argument of the latest render
    container,       \* useState: the committed container
    queued,          \* the setContainer update waiting for the next render
    memo,            \* useMemo: [deps, value]
    recomputed,      \* whether the latest render ran the useMemo factory
    effect,          \* useEffect: [deps, closure, pending]
    style,           \* the style object of every DOM node
    attached,        \* the node most recently passed (non-null) to ref
    devicePixelRatio,\* window.devicePixelRatio
    \* ---- one call of a pure function (the function specifications) ----
    args,            \* the arguments of the call
    result           \* what the call returned

vars == <<text, option, container, queued, memo, recomputed, effect, style,
          attached, devicePixelRatio, args, result>>

hookVars == <<text, option, container, queued, memo, recomputed, effect,
              style, attached, devicePixelRatio>>

(***************************************************************************)
(* JavaScript values                                                       *)
(***************************************************************************)
Num(n) == [t |-> "number", v |-> n]
Str(s) == [t |-> "string", v |-> s]
NaN == [t |-> "NaN"]
Undefined == [t |-> "undefined"]

\* The value of `result` before the call has been made.
NotCalled == [t |-> "notcalled"]

Min(a, b) == IF a < b THEN a ELSE b

\* String.prototype.slice(from, to) for 0 <= from <= to: clamped to the length.
Slice(s, from, to) == SubSeq(s, Min(from, Len(s)) + 1, Min(to, Len(s)))

(***************************************************************************)
(* parseInt(s, 16)                                                         *)
(***************************************************************************)
LowerHex == <<"0","1","2","3","4","5","6","7","8","9","a","b","c","d","e","f">>
UpperHex == <<"0","1","2","3","4","5","6","7","8","9","A","B","C","D","E","F">>

IsHexDigit(c) == \E i \in 1..16 : LowerHex[i] = c \/ UpperHex[i] = c

HexDigitValue(c) == (CHOOSE i \in 1..16 : LowerHex[i] = c \/ UpperHex[i] = c) - 1

RECURSIVE SkipWhiteSpace(_)
SkipWhiteSpace(s) ==
    IF s # <<>> /\ Head(s) = " " THEN SkipWhiteSpace(Tail(s)) ELSE s

\* The digits parseInt accumulates: it stops at the first character that is
\* no digit of the radix.  acc is the value so far, any whether a digit was seen.
RECURSIVE ParseDigits(_, _, _)
ParseDigits(s, acc, any) ==
    IF s # <<>> /\ IsHexDigit(Head(s))
    THEN ParseDigits(Tail(s), acc * 16 + HexDigitValue(Head(s)), TRUE)
    ELSE IF any THEN Num(acc) ELSE NaN

Negate(x) == IF x = NaN THEN NaN ELSE Num(0 - x.v)

parseInt16(str) ==
    LET s1 == SkipWhiteSpace(str)
        neg == s1 # <<>> /\ Head(s1) = "-"
        s2 == IF s1 # <<>> /\ Head(s1) \in {"+", "-"} THEN Tail(s1) ELSE s1
        s3 == IF Len(s2) >= 2 /\ s2[1] = "0" /\ s2[2] \in {"x", "X"}
              THEN Tail(Tail(s2)) ELSE s2
        n == ParseDigits(s3, 0, FALSE)
    IN IF neg THEN Negate(n) ELSE n

(***************************************************************************)
(* hexToRgba: the string `rgba(r, g, b, alpha)` as its four interpolated   *)
(* values.                                                                 *)
(***************************************************************************)
hexToRgbaBlueFromGreen(hex, alpha) ==
    [r |-> parseInt16(Slice(hex, 1, 3)),
     g |-> parseInt16(Slice(hex, 3, 5)),
     b |-> parseInt16(Slice(hex, 3, 5)),
     a |-> Num(alpha)]

hexToRgba(hex, alpha) ==
    [r |-> parseInt16(Slice(hex, 1, 3)),
     g |-> parseInt16(Slice(hex, 3, 5)),
     b |-> parseInt16(Slice(hex, 5, 7)),
     a |-> Num(alpha)]

(***************************************************************************)
(* Math.sqrt and Math.ceil on the non-negative integers the model uses.    *)
(* A square root is kept as its integer part and whether it is exact.      *)
(***************************************************************************)
RECURSIVE SqrtFrom(_, _)
SqrtFrom(x, k) == IF (k + 1) * (k + 1) > x THEN k ELSE SqrtFrom(x, k + 1)

MathSqrt(x) ==
    LET k == SqrtFrom(x, 0) IN [int |-> k, exact |-> k * k = x]

MathCeil(r) == IF r.exact THEN r.int ELSE r.int + 1

(***************************************************************************)
(* createWatermarkImage                                                    *)
(*                                                                         *)
(* platform is what the browser answers during the call:                   *)
(*   devicePixelRatio  window.devicePixelRatio (0 stands for a falsy one), *)
(*   hasContext        whether canvas.getContext('2d') returns a context,  *)
(*   textWidth         ctx.measureText(text).width.                        *)
(* The data URL is kept as the canvas it encodes: its size and the         *)
(* drawing state the code set before fillText.                             *)
(***************************************************************************)
Throw(e) == [t |-> "throw", error |-> e]

canvasSizeFloor(textWidth, textHeight) ==
    MathSqrt(textWidth * textWidth + textHeight * textHeight).int

canvasSize(textWidth, textHeight) ==
    MathCeil(MathSqrt(textWidth * textWidth + textHeight * textHeight))

PixelRatio(platform) ==
    IF platform.devicePixelRatio = 0 THEN 1 ELSE platform.devicePixelRatio

createWatermarkImage(txt, options, platform) ==
    LET dpr == PixelRatio(platform)
        textWidth == platform.textWidth
        textHeight == options.fontSize * dpr
        side == canvasSize(textWidth, textHeight)
    IN IF ~platform.hasContext
       THEN Throw("TypeError")       \* ctx is null: `ctx.font = ...` throws
       ELSE [t |-> "dataurl",
             width |-> side,
             height |-> side,
             scale |-> dpr,
             \* translate(width / (2 * dpr), height / (2 * dpr)), as fractions
             translate |-> <<side, 2 * dpr, side, 2 * dpr>>,
             rotateDegrees |-> options.angle,
             fontPx |-> options.fontSize,
             fillStyle |-> hexToRgba(options.color, options.opacity),
             textAlign |-> "center",
             textBaseline |-> "middle",
             text |-> txt]

(***************************************************************************)
(* defaultOption and the merge { ...defaultOption, ...option }             *)
(*                                                                         *)
(* An option object is [t |-> "object", fields |-> f], f a function from   *)
(* the keys the object owns to their values; a key may be owned with the   *)
(* value undefined.  A call without the argument passes Undefined.         *)
(***************************************************************************)
Fields == {"fontSize", "angle", "opacity", "size", "color"}

DefaultFontSize == 14
DefaultAngle == -45
DefaultOpacity == 5
DefaultSize == "180px 180px"
DefaultColor == <<"#", "0", "0", "0", "0", "0", "0">>

defaultOption ==
    [fontSize |-> Num(DefaultFontSize),
     angle |-> Num(DefaultAngle),
     opacity |-> Num(DefaultOpacity),
     size |-> Str(DefaultSize),
     color |-> Str(DefaultColor)]

Object(f) == [t |-> "object", fields |-> f]

\* The keys an object spread copies: none for undefined.
OwnKeys(o) == IF o = Undefined THEN {} ELSE DOMAIN o.fields

MergeSkippingUndefined(o) ==
    [f \in Fields |->
        IF f \in OwnKeys(o) /\ o.fields[f] # Undefined
        THEN o.fields[f] ELSE defaultOption[f]]

MergeOption(o) ==
    [f \in Fields |->
        IF f \in OwnKeys(o) THEN o.fields[f] ELSE defaultOption[f]]

(***************************************************************************)
(* The function specifications: one call of a pure function on arguments   *)
(* drawn from bounded sets.  The hook does not run in them.                *)
(***************************************************************************)
MaxTextWidth == 8
MaxFontSize == 3
MaxDevicePixelRatio == 2

Red == <<"#", "F", "F", "0", "0", "0", "0">>
White == <<"#", "F", "F", "F", "F", "F", "F">>

\* ---- hexToRgba ----
ColorLeads == {<<"#">>, <<"b">>}
ColorPairs ==
    {<<"0", "0">>, <<"F", "F">>, <<"a", "d">>, <<"7", "f">>, <<"-", "c">>,
     <<"o", "l">>, <<"0", "x">>, <<"F">>, <<>>, <<"g", "1">>, <<"1", "g">>,
     <<" ", "9">>, <<"+", "A">>}
ColorTails == {<<>>, <<"8", "0">>, <<"o", "r">>}

Colors ==
    {l \o p1 \o p2 \o p3 \o tl :
        l \in ColorLeads, p1 \in ColorPairs, p2 \in ColorPairs,
        p3 \in ColorPairs, tl \in ColorTails}

Opacities == {-10, 5, 50, 100, 150}

\* ---- createWatermarkImage ----
TileTexts == {<<>>, <<"W", "M">>}
FontSizes == (-1 .. MaxFontSize) \cup {DefaultFontSize}
TextWidths == 0 .. MaxTextWidth
PixelRatios == 0 .. MaxDevicePixelRatio
Angles == {-45, 0, 45, 90}
TileColors == {DefaultColor, <<"b", "a", "d">>}

TileCalls ==
    {[text |-> tx,
      options |-> [fontSize |-> fs, angle |-> an, opacity |-> op, color |-> co],
      platform |-> [devicePixelRatio |-> dp, hasContext |-> hc, textWidth |-> w]] :
        tx \in TileTexts, fs \in FontSizes, an \in Angles,
        op \in {-10, 5, 100}, co \in TileColors, dp \in PixelRatios,
        hc \in BOOLEAN, w \in TextWidths}

\* The empty text measures 0.
TileArgs == {a \in TileCalls : a.text = <<>> => a.platform.textWidth = 0}

\* ---- the merge ----
SuppliedOption ==
    [fontSize |-> Num(20),
     angle |-> Num(0),
     opacity |-> Num(50),
     size |-> Str("90px 90px"),
     color |-> Str(Red)]

FieldChoices == [Fields -> {"absent", "undefined", "value"}]

OptionOf(c) ==
    Object([f \in {g \in Fields : c[g] # "absent"} |->
               IF c[f] = "undefined" THEN Undefined ELSE SuppliedOption[f]])

MergeArgs == {Undefined} \cup {OptionOf(c) : c \in FieldChoices}

(***************************************************************************)
(* The hook useWatermark                                                   *)
(***************************************************************************)
Nodes == {"n1", "n2"}
Null == "null"
NoUpdate == "noupdate"

\* element.style of a node nothing has styled yet.
NoImage == [t |-> "empty"]
EmptyStyle ==
    [backgroundRepeat |-> "", pointerEvents |-> "", zIndex |-> "",
     backgroundImage |-> NoImage, backgroundSize |-> ""]

\* The template `url(${watermarkImage})`.
Url(image) == [t |-> "url", image |-> image]

\* ctx.measureText(text).width in a font of px pixels.  The browser's font
\* metrics are not part of the repository: every glyph advances by px here.
measureText(txt, px) == Len(txt) * px

Platform(txt, fontSize) ==
    LET p == [devicePixelRatio |-> devicePixelRatio, hasContext |-> TRUE,
              textWidth |-> 0]
    IN [p EXCEPT !.textWidth = measureText(txt, fontSize * PixelRatio(p))]

\* The object literal { fontSize, angle, opacity, color } passed to the factory.
ImageOptions(m) ==
    [fontSize |-> m.fontSize.v, angle |-> m.angle.v,
     opacity |-> m.opacity.v, color |-> m.color.v]

\* useMemo's dependency array.
MemoDepsWithColor(txt, m) == <<txt, m.fontSize, m.angle, m.opacity, m.color>>

MemoDeps(txt, m) == <<txt, m.fontSize, m.angle, m.opacity>>

\* useEffect's dependency array.
EffectDepsWithoutImage(c, image, size) == <<c, size>>

EffectDeps(c, image, size) == <<c, image, size>>

\* The three assignments of the ref callback.
RefStyleWithoutZIndex(st, node) ==
    [st EXCEPT ![node].backgroundRepeat = "repeat",
               ![node].pointerEvents = "none"]

RefStyle(st, node) ==
    [st EXCEPT ![node].backgroundRepeat = "repeat",
               ![node].pointerEvents = "none",
               ![node].zIndex = "9999"]

\* The body of the effect, run with the values its render closed over.
EffectStyle(st, closure) ==
    IF closure.container = Null
    THEN st
    ELSE [st EXCEPT ![closure.container].backgroundImage =
                        Url(closure.watermarkImage),
                    ![closure.container].backgroundSize = closure.size.v]

\* The image the hook returned from its latest render.
watermarkImage == memo.value

\* The inputs of the renders.
HookTexts == {<<"W", "M">>, <<"X">>}
HookOptions ==
    {Undefined,
     Object([angle |-> Num(0)]),
     Object([fontSize |-> Num(20), opacity |-> Num(50)]),
     Object([color |-> Str(Red)]),
     Object([size |-> Str("90px 90px")]),
     Object([color |-> Str(Red), size |-> Str("90px 90px")])}
HookPixelRatios == 1 .. MaxDevicePixelRatio

NoCall == args = NotCalled /\ result = NotCalled

\* The state after the first render of useWatermark(t, o): nothing committed
\* to the DOM yet, the effect of the mount waiting to run.
Mounted(t, o) ==
    LET m == MergeOption(o)
        image == createWatermarkImage(t, ImageOptions(m),
                                      Platform(t, m.fontSize.v))
    IN /\ text = t
       /\ option = o
       /\ container = Null
       /\ queued = NoUpdate
       /\ memo = [deps |-> MemoDeps(t, m), value |-> image]
       /\ recomputed = TRUE
       /\ effect = [deps |-> EffectDeps(Null, image, m.size),
                    closure |-> [container |-> Null, watermarkImage |-> image,
                                 size |-> m.size],
                    pending |-> TRUE]
       /\ style = [n \in Nodes |-> EmptyStyle]
       /\ attached = Null

Init ==
    /\ devicePixelRatio \in HookPixelRatios
    /\ \E t \in HookTexts, o \in HookOptions : Mounted(t, o)
    /\ NoCall

\* One render of the component with arguments t and o.  React runs the
\* effects of the previous commit before it renders again.
Render(t, o) ==
    LET m == MergeOption(o)
        c == IF queued = NoUpdate THEN container ELSE queued
        deps == MemoDeps(t, m)
        hit == memo.deps = deps
        image == IF hit THEN memo.value
                 ELSE createWatermarkImage(t, ImageOptions(m),
                                           Platform(t, m.fontSize.v))
        edeps == EffectDeps(c, image, m.size)
    IN /\ ~effect.pending
       /\ text' = t
       /\ option' = o
       /\ container' = c
       /\ queued' = NoUpdate
       /\ memo' = [deps |-> deps, value |-> image]
       /\ recomputed' = ~hit
       /\ effect' = IF edeps = effect.deps
                    THEN effect
                    ELSE [deps |-> edeps,
                          closure |-> [container |-> c, watermarkImage |-> image,
                                       size |-> m.size],
                          pending |-> TRUE]
       /\ UNCHANGED <<style, attached, devicePixelRatio, args, result>>

\* The parent renders the component with new arguments.
ParentRender == \E t \in HookTexts, o \in HookOptions : Render(t, o)

\* The render React schedules for a setContainer call.
Rerender == queued # NoUpdate /\ Render(text, option)

\* The effect of the latest commit runs.
RunEffect ==
    /\ effect.pending
    /\ effect' = [effect EXCEPT !.pending = FALSE]
    /\ style' = EffectStyle(style, effect.closure)
    /\ UNCHANGED <<text, option, container, queued, memo, recomputed, attached,
                   devicePixelRatio, args, result>>

\* The ref callback is called with a node, or with null.
Ref(node) ==
    IF node = Null
    THEN UNCHANGED vars
    ELSE /\ queued' = IF node = container /\ queued = NoUpdate
                      THEN NoUpdate ELSE node
         /\ style' = RefStyle(style, node)
         /\ attached' = node
         /\ UNCHANGED <<text, option, container, memo, recomputed, effect,
                        devicePixelRatio, args, result>>

CallRef == \E node \in Nodes \cup {Null} : Ref(node)

Next == ParentRender \/ Rerender \/ RunEffect \/ CallRef

Spec == Init /\ [][Next]_vars

\* No render, effect or state update is outstanding.
Quiescent == ~effect.pending /\ queued = NoUpdate

(***************************************************************************)
(* The function specifications                                             *)
(***************************************************************************)
\* The hook, mounted with the defaults and left alone.
HookIdle == devicePixelRatio = 1 /\ Mounted(<<"W", "M">>, Undefined)

InitColor ==
    /\ args \in {[hex |-> h, alpha |-> a] : h \in Colors, a \in Opacities}
    /\ result = NotCalled
    /\ HookIdle

CallHexToRgba ==
    /\ result = NotCalled
    /\ result' = hexToRgba(args.hex, args.alpha)
    /\ UNCHANGED <<args, hookVars>>

SpecColor == InitColor /\ [][CallHexToRgba]_vars

InitTile ==
    /\ args \in TileArgs
    /\ result = NotCalled
    /\ HookIdle

CallCreateWatermarkImage ==
    /\ result = NotCalled
    /\ result' = createWatermarkImage(args.text, args.options, args.platform)
    /\ UNCHANGED <<args, hookVars>>

SpecTile == InitTile /\ [][CallCreateWatermarkImage]_vars

InitMerge ==
    /\ args \in MergeArgs
    /\ result = NotCalled
    /\ HookIdle

CallMergeOption ==
    /\ result = NotCalled
    /\ result' = MergeOption(args)
    /\ UNCHANGED <<args, hookVars>>

SpecMerge == InitMerge /\ [][CallMergeOption]_vars

(***************************************************************************)
(* Properties                                                              *)
(***************************************************************************)
\* The effective options of the latest render.
Merged == MergeOption(option)

\* C1: last write wins.  Once no effect and no state update is outstanding,
\* the node most recently passed to ref is the hook's container, and its
\* backgroundImage is url(<the image the latest render returned>) and its
\* backgroundSize the size of the latest render: no image of a superseded
\* render is left applied.
C1_LastWriteWins ==
    (Quiescent /\ attached # Null) =>
        /\ container = attached
        /\ style[attached].backgroundImage = Url(watermarkImage)
        /\ style[attached].backgroundSize = Merged.size.v

\* A second node was attached after the first had been given an image, the
\* arguments changed, and everything has settled.
C1_Witness ==
    /\ Quiescent
    /\ attached = "n2"
    /\ style["n1"].backgroundImage # NoImage
    /\ style["n2"].backgroundImage = Url(watermarkImage)
    /\ style["n1"].backgroundImage # style["n2"].backgroundImage
    /\ style["n2"].backgroundSize = "90px 90px"

\* C2: full-input memoization.  After every render the returned image is the
\* tile createWatermarkImage produces from the current text, fontSize, angle,
\* opacity and color.
C2_FullInputMemoization ==
    watermarkImage =
        createWatermarkImage(text, ImageOptions(Merged),
                             Platform(text, Merged.fontSize.v))

\* The inputs the useMemo of the code is keyed on differ between two states.
KeyChanged ==
    \/ text' # text
    \/ MergeOption(option').fontSize # Merged.fontSize
    \/ MergeOption(option').angle # Merged.angle
    \/ MergeOption(option').opacity # Merged.opacity

AnyRender == \E t \in HookTexts, o \in HookOptions : Render(t, o)

\* C3: the recomputation trigger set.  A render runs the factory if and only
\* if text, fontSize, angle or opacity differ from the previous render; a
\* render in which only color and/or size differ returns the cached image
\* unchanged; a changed size still schedules the effect that writes it to
\* the container.
C3_RecomputeTrigger ==
    [][AnyRender =>
        /\ recomputed' <=> KeyChanged
        /\ ~KeyChanged => watermarkImage' = watermarkImage
        /\ (MergeOption(option').size # Merged.size /\ container' # Null) =>
              /\ effect'.pending
              /\ effect'.closure.size = MergeOption(option').size
              /\ effect'.closure.container = container']_vars

\* The latest render changed the color only and returned the cached tile,
\* which still carries the previous fill color.
C3_Witness ==
    /\ ~recomputed
    /\ Merged.color = Str(Red)
    /\ watermarkImage.fillStyle = hexToRgba(DefaultColor, Merged.opacity.v)
    /\ container # Null

\* C4: default merging.  Every field supplied with a value takes that value,
\* every other field (absent, or present with the value undefined) takes its
\* default, and no effective field is undefined.
C4_DefaultMerging ==
    result # NotCalled =>
        \A f \in Fields :
            /\ result[f] # Undefined
            /\ result[f] = MergeSkippingUndefined(args)[f]

\* C5: the presentation contract.  Once everything has settled, the attached
\* node has backgroundRepeat 'repeat', pointerEvents 'none', zIndex '9999',
\* backgroundSize equal to options.size and a backgroundImage that references
\* a tile; and every node that was ever given an image keeps the three fixed
\* properties, whatever renders, option changes and ref(null) calls follow.
C5_PresentationContract ==
    /\ (Quiescent /\ attached # Null) =>
          /\ style[attached].backgroundRepeat = "repeat"
          /\ style[attached].pointerEvents = "none"
          /\ style[attached].zIndex = "9999"
          /\ style[attached].backgroundSize = Merged.size.v
          /\ style[attached].backgroundImage.t = "url"
          /\ style[attached].backgroundImage.image.t = "dataurl"
    /\ \A n \in Nodes :
          style[n].backgroundImage # NoImage =>
              /\ style[n].backgroundRepeat = "repeat"
              /\ style[n].pointerEvents = "none"
              /\ style[n].zIndex = "9999"
              /\ style[n].backgroundSize \in {DefaultSize, "90px 90px"}

\* Both nodes have been containers, the size option was changed afterwards,
\* and the attached node shows the new size.
C5_Witness ==
    /\ Quiescent
    /\ attached = "n1"
    /\ style["n2"].backgroundImage # NoImage
    /\ style["n2"].backgroundSize = DefaultSize
    /\ style["n1"].backgroundSize = "90px 90px"
    /\ style["n1"].zIndex = "9999"

\* '#' followed by exactly six hexadecimal digits.
WellFormedColor(hex) ==
    /\ Len(hex) = 7
    /\ hex[1] = "#"
    /\ \A i \in 2..7 : IsHexDigit(hex[i])

\* '#' followed by exactly eight hexadecimal digits.
WellFormedColorWithAlpha(hex) ==
    /\ Len(hex) = 9
    /\ hex[1] = "#"
    /\ \A i \in 2..9 : IsHexDigit(hex[i])

\* C6: a malformed color is rejected.  For every color that is not '#' and
\* six hexadecimal digits, resolving it fails with InvalidColorFormat (so no
\* fill color holding NaN is produced).
C6_MalformedColorRejected ==
    (result # NotCalled /\ ~WellFormedColor(args.hex)) =>
        result = Throw("InvalidColorFormat")

\* C7: invalid style parameters fail fast.  With a drawing context at hand
\* and a well-formed color, a call with fontSize <= 0 or an opacity outside
\* [0, 1] ends in an InvalidStyleParameter failure and returns no tile.
C7_InvalidStyleFailsFast ==
    (/\ result # NotCalled
     /\ args.platform.hasContext
     /\ WellFormedColor(args.options.color)
     /\ \/ args.options.fontSize <= 0
        \/ args.options.opacity \notin 0..100) =>
        result = Throw("InvalidStyleParameter")

\* C8: render surface unavailable.  When getContext returns null,
\* createWatermarkImage fails with a RenderUnavailable error.
C8_RenderUnavailable ==
    (result # NotCalled /\ ~args.platform.hasContext) =>
        result = Throw("RenderUnavailable")

\* C9: the tile side.  For a measured width w >= 0 and fontSize > 0, with
\* h = fontSize * pixelScale, the canvas is square and its side is the least
\* integer s with s*s >= w*w + h*h; the side is h for the empty text, is the
\* same for every angle, and does not decrease when w or fontSize grow.
C9_TileSide ==
    (result.t = "dataurl" /\ args.options.fontSize > 0) =>
        LET w == args.platform.textWidth
            dpr == PixelRatio(args.platform)
            h == args.options.fontSize * dpr
            s == result.width
        IN /\ result.height = s
           /\ s * s >= w * w + h * h
           /\ (s - 1) * (s - 1) < w * w + h * h
           /\ args.text = <<>> => s = h
           /\ \A an \in Angles :
                 createWatermarkImage(
                     args.text, [args.options EXCEPT !.angle = an],
                     args.platform).width = s
           /\ \A w2 \in TextWidths, f2 \in FontSizes :
                 (w2 >= w /\ f2 >= args.options.fontSize) =>
                     createWatermarkImage(
                         args.text, [args.options EXCEPT !.fontSize = f2],
                         [args.platform EXCEPT !.textWidth = w2]).width >= s

\* A text of width 4 at font size 3 gets a tile of side 5 at a rotation of
\* 90 degrees.
C9_Witness ==
    /\ result.t = "dataurl"
    /\ args.platform.textWidth = 4
    /\ args.options.fontSize = 3
    /\ args.platform.devicePixelRatio = 1
    /\ args.options.angle = 90
    /\ result.width = 5

\* The value of the two hexadecimal digits at 1-based positions i and i + 1.
PairValue(hex, i) == 16 * HexDigitValue(hex[i]) + HexDigitValue(hex[i + 1])

\* C10: color resolution.  For #RRGGBB (and #RRGGBBAA) and every opacity,
\* red, green and blue are the base-16 values of the three digit pairs, each
\* in 0..255, and alpha is the supplied opacity; (#000000, 0.05) gives
\* (0, 0, 0, 0.05) and (#FFFFFF, 1) gives (255, 255, 255, 1).
C10_ColorResolution ==
    /\ (/\ result # NotCalled
        /\ WellFormedColor(args.hex) \/ WellFormedColorWithAlpha(args.hex)) =>
          /\ result.r = Num(PairValue(args.hex, 2))
          /\ result.g = Num(PairValue(args.hex, 4))
          /\ result.b = Num(PairValue(args.hex, 6))
          /\ result.a = Num(args.alpha)
          /\ \A ch \in {result.r, result.g, result.b} : ch.v \in 0..255
    /\ (result # NotCalled /\ args.hex = DefaultColor /\ args.alpha = 5) =>
          result = [r |-> Num(0), g |-> Num(0), b |-> Num(0), a |-> Num(5)]
    /\ (result # NotCalled /\ args.hex = White /\ args.alpha = 100) =>
          result = [r |-> Num(255), g |-> Num(255), b |-> Num(255),
                    a |-> Num(100)]

\* A color with its own alpha digits, resolved with opacity 0.5.
C10_Witness ==
    /\ result # NotCalled
    /\ args.hex = <<"#", "7", "f", "a", "d", "F", "F", "8", "0">>
    /\ args.alpha = 50
    /\ result = [r |-> Num(127), g |-> Num(173), b |-> Num(255), a |-> Num(50)]

====
